---- MODULE Spec2Model ----
(***************************************************************************)
(* Model of the Complio licensing backend: the key/signature engine       *)
(* (lib/license_generator.py), the store wrapper (lib/database.py) and    *)
(* the validation endpoint (api/validate_license.py) and the issuance     *)
(* webhook (api/generate_license.py).                                      *)
(*                                                                         *)
(* Strings are sequences of one-character strings, so that concatenation, *)
(* prefixes, lengths and case conversion are computed as the code computes *)
(* them.                                                                   *)
(***************************************************************************)
EXTENDS Integers, Sequences, FiniteSets, TLC

\* ------------------------------------------------------------------ bounds

\* Number of validation requests, with bodies and stored rows of every kind.
NumReqs == 1
\* Number of validation requests of one key that overlap (SpecPair).
NumPair == 2
\* Number of validation requests of one key that overlap (SpecRace).
NumRace == 3
\* The clock runs over 0..MaxTime.
MaxTime == 2

\* Number of billing events delivered to the issuance webhook (SpecIssue).
NumHooks == 1
\* Number of calls of update_license_status (SpecIssue).
MaxStatusUpdates == 1

Reqs == 1..NumReqs
Hooks == 1..NumHooks
PairReqs == 1..NumPair
RaceReqs == 1..NumRace

\* ------------------------------------------------------------ string helpers

RECURSIVE StartsWith(_, _)
\* str.startswith
StartsWith(s, p) ==
    IF p = <<>> THEN TRUE
    ELSE IF s = <<>> THEN FALSE
    ELSE Head(s) = Head(p) /\ StartsWith(Tail(s), Tail(p))

\* str.lower on one character (the letters the model uses)
LowerChar(c) ==
    CASE c = "A" -> "a" [] c = "C" -> "c" [] c = "D" -> "d" [] c = "E" -> "e"
      [] c = "I" -> "i" [] c = "L" -> "l" [] c = "N" -> "n" [] c = "P" -> "p"
      [] c = "R" -> "r" [] c = "S" -> "s" [] c = "T" -> "t" [] c = "U" -> "u"
      [] c = "V" -> "v" [] OTHER -> c

\* str.lower
Lower(s) == [i \in 1..Len(s) |-> LowerChar(s[i])]

\* ------------------------------------------------- key format (validator)

\* The literal 'COMPL-' of the format check and of generate_license_key.
Prefix == <<"C", "O", "M", "P", "L", "-">>
\* The length the format check demands.
KeyLen == 24

Grp0 == <<"0", "0", "0", "0">>
Grp1 == <<"0", "0", "0", "1">>
Dash == <<"-">>

\* Two keys that pass the format check (24 characters: the last group has
\* three), a key of the form COMPL-XXXX-XXXX-XXXX-XXXX (25 characters), and
\* two more that fail the check.
K1 == Prefix \o Grp0 \o Dash \o Grp0 \o Dash \o Grp0 \o Dash \o <<"0", "0", "1">>
K2 == Prefix \o Grp0 \o Dash \o Grp0 \o Dash \o Grp0 \o Dash \o <<"0", "0", "2">>
FourGroupKey == Prefix \o Grp0 \o Dash \o Grp0 \o Dash \o Grp0 \o Dash \o Grp1
NotAKey == <<"n", "o", "t", "-", "a", "-", "k", "e", "y">>
BadPrefixKey == <<"X", "O", "M", "P", "L", "-">> \o SubSeq(K1, 7, 24)

\* bytes.hex().upper() on one byte: two uppercase hexadecimal digits.
HexUpperDigit(n) ==
    CASE n = 0 -> "0" [] n = 1 -> "1" [] n = 2 -> "2" [] n = 3 -> "3"
      [] n = 4 -> "4" [] n = 5 -> "5" [] n = 6 -> "6" [] n = 7 -> "7"
      [] n = 8 -> "8" [] n = 9 -> "9" [] n = 10 -> "A" [] n = 11 -> "B"
      [] n = 12 -> "C" [] n = 13 -> "D" [] n = 14 -> "E" [] OTHER -> "F"

HexUpperByte(b) == <<HexUpperDigit(b \div 16), HexUpperDigit(b % 16)>>

RECURSIVE HexUpper(_)
\* random_bytes.hex().upper()
HexUpper(bytes) ==
    IF bytes = <<>> THEN <<>>
    ELSE HexUpperByte(Head(bytes)) \o HexUpper(Tail(bytes))

\* generate_license_key, given the bytes secrets.token_bytes(8) returned:
\* 'COMPL-' and the four parts of four characters, joined by '-'.
GenerateLicenseKey(random_bytes) ==
    LET hex_string == HexUpper(random_bytes)
        parts == [i \in 1..4 |-> SubSeq(hex_string, 4 * (i - 1) + 1, 4 * i)]
    IN  Prefix \o parts[1] \o Dash \o parts[2] \o Dash \o parts[3]
               \o Dash \o parts[4]

\* Values of secrets.token_bytes(8) the model draws from.
RandomBytes == {<<0, 0, 0, 0, 0, 0, 0, 1>>, <<0, 0, 0, 0, 0, 0, 171, 205>>}

\* The keys issuance can mint in the model.
GenKeys == {GenerateLicenseKey(b) : b \in RandomBytes}

Keys == {K1, K2} \cup GenKeys

\* A mutant of the validator: only the prefix is looked at.
WellFormedPrefixOnly(k) == StartsWith(k, Prefix)

\* validate_license.py line 54, negated: the key passes the format check.
WellFormed(k) == StartsWith(k, Prefix) /\ Len(k) = KeyLen

\* ------------------------------------------------------ signature engine

HexDigits == {"0", "1", "a", "b", "c", "d", "A", "B", "C", "D"}

HexVal(c) ==
    CASE c = "0" -> 0 [] c = "1" -> 1
      [] c \in {"a", "A"} -> 10 [] c \in {"b", "B"} -> 11
      [] c \in {"c", "C"} -> 12 [] c \in {"d", "D"} -> 13
      [] OTHER -> 0

\* The result of a call that may raise.
Raised == [raised |-> TRUE, value |-> <<>>]
Returned(v) == [raised |-> FALSE, value |-> v]

RECURSIVE FromHex(_)
\* bytes.fromhex: pairs of hex digits of either case, white space skipped
\* between the pairs; ValueError on anything else.
FromHex(s) ==
    IF s = <<>> THEN Returned(<<>>)
    ELSE IF Head(s) = " " THEN FromHex(Tail(s))
    ELSE IF Len(s) >= 2 /\ s[1] \in HexDigits /\ s[2] \in HexDigits
         THEN LET rest == FromHex(Tail(Tail(s)))
              IN  IF rest.raised THEN Raised
                  ELSE Returned(<<16 * HexVal(s[1]) + HexVal(s[2])>> \o rest.value)
    ELSE Raised

RECURSIVE StripZeros(_)
\* HMAC pads a key shorter than the block with zero bytes: two keys that
\* differ only in trailing zero bytes are the same key block.
StripZeros(b) ==
    IF b = <<>> THEN <<>>
    ELSE IF b[Len(b)] = 0 THEN StripZeros(SubSeq(b, 1, Len(b) - 1))
    ELSE b

\* hmac.new(key_bytes, message, sha256).hexdigest(), as an ideal MAC: the
\* digest is determined by, and determines, the key block and the message.
HmacSha256(key_bytes, message) ==
    [message |-> message, keyblock |-> StripZeros(key_bytes)]

Pipe == <<"|">>

\* A mutant of sign_license: the tier is left out of the message.
SignLicenseNoTier(license_key, email, tier, secret) ==
    LET key_bytes == FromHex(secret)
    IN  IF key_bytes.raised THEN Raised
        ELSE Returned(HmacSha256(key_bytes.value, license_key \o Pipe \o email))

\* sign_license: raises when the secret is not hexadecimal.
SignLicense(license_key, email, tier, secret) ==
    LET message   == license_key \o Pipe \o email \o Pipe \o tier
        key_bytes == FromHex(secret)
    IN  IF key_bytes.raised THEN Raised
        ELSE Returned(HmacSha256(key_bytes.value, message))

\* A mutant of verify_signature: email and tier are passed in the wrong order.
VerifySignatureSwapped(license_key, email, tier, signature, secret) ==
    LET expected_signature == SignLicense(license_key, tier, email, secret)
    IN  IF expected_signature.raised THEN Raised
        ELSE Returned(signature = expected_signature.value)

\* verify_signature: the exception of sign_license is not caught.
VerifySignature(license_key, email, tier, signature, secret) ==
    LET expected_signature == SignLicense(license_key, email, tier, secret)
    IN  IF expected_signature.raised THEN Raised
        ELSE Returned(signature = expected_signature.value)

\* ------------------------------------------------------------ time stamps

\* An ISO-8601 text as the store returns it: the wall-clock reading and the
\* suffix after it ("" for none, "Z", or "+00:00"); "null" is SQL NULL or
\* the empty string, "garbage" a text that datetime.fromisoformat rejects.
Suffixes == {"", "Z", "+00:00"}
NullTime == [kind |-> "null", wall |-> 0, suffix |-> ""]
GarbageTime == [kind |-> "garbage", wall |-> 0, suffix |-> ""]
IsoTime(w, sfx) == [kind |-> "iso", wall |-> w, suffix |-> sfx]

\* datetime.utcnow().isoformat(): a naive reading, no suffix.
IsoFormat(t) == IsoTime(t, "")

\* expires_at.replace('Z', '+00:00')
ReplaceZ(ts) == IF ts.suffix = "Z" THEN [ts EXCEPT !.suffix = "+00:00"] ELSE ts

\* datetime.fromisoformat: a naive datetime without an offset, an aware
\* one with it; ValueError on a text it cannot parse.
FromIsoformat(ts) ==
    IF ts.kind # "iso" THEN Raised
    ELSE Returned([wall |-> ts.wall,
                   tzinfo |-> IF ts.suffix = "" THEN "naive" ELSE "utc"])

\* datetime.__gt__: TypeError between a naive and an aware datetime.
DatetimeGreater(a, b) ==
    IF a.tzinfo # b.tzinfo THEN Raised ELSE Returned(a.wall > b.wall)

\* The instant a parseable stored text denotes (all offsets here are zero).
Instant(ts) == ts.wall

\* ----------------------------------------------------------- store records

ACTIVE == <<"A", "C", "T", "I", "V", "E">>
SUSPENDED == <<"S", "U", "S", "P", "E", "N", "D", "E", "D">>
CANCELLED == <<"C", "A", "N", "C", "E", "L", "L", "E", "D">>
\* A stored status outside the enumeration.
TrialStatus == <<"T", "r", "i", "a", "l">>
Statuses == {ACTIVE, SUSPENDED, CANCELLED, TrialStatus}

Email1 == <<"a", "@", "b">>
Email2 == <<"c", "@", "d">>
Tier1 == <<"P", "R", "O">>

\* Values of LICENSE_SIGNING_KEY: unset, hexadecimal, not hexadecimal.
EnvUnset == [value |-> <<>>, present |-> FALSE]
EnvSet(v) == [value |-> v, present |-> TRUE]
HexSecret == <<"a", "b", "0", "1">>
BadSecret == <<"z", "z">>
SigningKeys == {EnvUnset, EnvSet(HexSecret), EnvSet(BadSecret)}

\* The signature issuance stored for (K1, Email1, Tier1), and the one of a
\* record whose email was changed at rest after issuance.
GoodSig == SignLicense(K1, Email1, Tier1, HexSecret).value
StaleSig == SignLicense(K1, Email2, Tier1, HexSecret).value

\* The signature field of no row.
NoSig == [message |-> <<>>, keyblock |-> <<>>]

NoLicense ==
    [license_key |-> <<>>, email |-> <<>>, tier |-> <<>>,
     signature |-> NoSig, present |-> FALSE, status |-> <<>>, expires_at |-> NullTime,
     validation_count |-> 0, last_validated_at |-> NullTime]

\* Expiry texts a stored record may carry; the wall-clock reading 1 lies
\* inside the clock's range, so that it is future, present and past in turn.
ExpiryTime == 1
ExpiryValues ==
    {NullTime, GarbageTime} \cup {IsoTime(ExpiryTime, sfx) : sfx \in Suffixes}

\* The rows of table licenses for K1 that the requests may meet: the store
\* is given, with a good or a stale signature, any status text and any
\* expiry text (the signature covers neither status nor expiry).
InitialRecords ==
    {[license_key |-> K1, email |-> Email1, tier |-> Tier1, signature |-> sig,
      present |-> TRUE, status |-> st, expires_at |-> ex, validation_count |-> 0,
      last_validated_at |-> NullTime] :
        sig \in {GoodSig, StaleSig}, st \in Statuses, ex \in ExpiryValues}

\* ------------------------------------------------------- requests, replies

\* Request bodies: bytes that are not UTF-8, text that is not JSON, JSON
\* that is no object, and objects by what they hold under "license_key".
NoKeyField(kind) == [value |-> <<>>, kind |-> "object", field |-> kind]
KeyField(k) == [value |-> k, kind |-> "object", field |-> "string"]
Bodies ==
    {[value |-> <<>>, kind |-> k, field |-> "none"] :
        k \in {"not_utf8", "not_json", "json_other"}}
    \cup {NoKeyField(f) : f \in {"missing", "empty", "number"}}
    \cup {KeyField(k) : k \in {NotAKey, BadPrefixKey, FourGroupKey, K1, K2}}

NoBody == [value |-> <<>>, kind |-> "none", field |-> "none"]

Msg(text) == [text |-> text, arg |-> <<>>]
NoReply ==
    [email |-> <<>>, tier |-> <<>>, status |-> <<>>, code |-> 0,
     valid |-> "none", error |-> Msg("")]
\* _send_error
SendError(status_code, message) ==
    [NoReply EXCEPT !.code = status_code, !.error = message]
\* _send_json_response with {'valid': False, 'error': ...}
SendInvalid(message) ==
    [NoReply EXCEPT !.code = 200, !.valid = "false", !.error = message]
\* _send_json_response with {'valid': True, 'tier', 'email', 'status'}
SendValid(rec) ==
    [NoReply EXCEPT !.code = 200, !.valid = "true", !.tier = rec.tier,
                    !.email = rec.email, !.status = rec.status]

\* ------------------------------------------------------------------ state

VARIABLES
    signing_key,   \* os.environ['LICENSE_SIGNING_KEY']
    licenses,      \* table licenses: license key -> row (or NoLicense)
    validations,   \* table validations: the audit log, append-only
    now,           \* the UTC clock
    pc,            \* where each request's do_POST stands
    loc,           \* do_POST's local variables, per request
    reply,         \* the response sent, per request
    obs,           \* per request: what it did to the store (history)
    eng,           \* a call of the signature engine on its own (SpecSign)
    environ,       \* os.environ: STRIPE_SECRET_KEY, STRIPE_WEBHOOK_SECRET
    hook,          \* per billing event: where generate_license's do_POST
                   \* stands, its locals, its response and what it did
    outbox,        \* the activation emails the mail service accepted
    status_calls   \* number of calls of update_license_status so far

\* The variables of the issuance side.
issuance_vars == <<environ, hook, outbox, status_calls>>

vars == <<signing_key, licenses, validations, now, pc, loc, reply, obs, eng,
          environ, hook, outbox, status_calls>>

\* The requests of the run.
Procs == DOMAIN pc

\* The engine on its own: a signature is made of (key, email, tier, secret)
\* and then verified against (key2, email2, tier2, secret2).
NoEng ==
    [email |-> <<>>, tier |-> <<>>, secret |-> <<>>, sig |-> Raised,
     stage |-> "off", key |-> <<>>, key2 |-> <<>>, email2 |-> <<>>,
     tier2 |-> <<>>, secret2 |-> <<>>, ok |-> Raised]

EngKeys == {K1, K2}
EngEmails == {<<"a">>, <<"a", "|", "b">>}
EngTiers == {<<"c">>, <<"b", "|", "c">>}
EngSecrets == {<<"a", "b">>, <<"A", "B">>, <<"a", "b", "0", "0">>,
               <<"c", "d">>, BadSecret}

NoLocals ==
    [license_key |-> <<>>, body |-> NoBody, license_data |-> NoLicense,
     utcnow |-> 0, fail |-> "none"]

\* get/log/upd count the calls of get_license, log_validation and
\* update_license_validation; upd_ok and log_ok tell whether the last one
\* reached the store; checked names the last check that ran.
NoObs ==
    [get |-> 0, log |-> 0, upd |-> 0, upd_ok |-> FALSE, log_ok |-> FALSE,
     checked |-> "none"]

\* The other secrets of the environment, all set.
WebhookSecret == <<"w", "h", "s", "e", "c">>
EnvironSet ==
    [stripe_api_key |-> EnvSet(<<"s", "k">>), webhook_secret |-> EnvSet(WebhookSecret)]

\* No billing event is delivered and no status is updated.
IssuanceOff ==
    /\ environ = EnvironSet
    /\ hook = <<>>
    /\ outbox = <<>>
    /\ status_calls = 0

Init ==
    /\ signing_key \in SigningKeys
    /\ licenses \in {[k \in Keys |-> IF k = K1 THEN rec ELSE NoLicense] :
                        rec \in InitialRecords}
    /\ validations = <<>>
    /\ now = 0
    /\ pc = [r \in Reqs |-> "idle"]
    /\ loc = [r \in Reqs |-> NoLocals]
    /\ reply = [r \in Reqs |-> NoReply]
    /\ obs = [r \in Reqs |-> NoObs]
    /\ eng = NoEng
    /\ IssuanceOff

\* The response of do_POST lines 28-59 to a body, or "pass" when the key
\* goes on to the store: configuration, decoding, JSON, field, format.
\* A JSON value that is no object has no .get, a key that is no string has
\* no .startswith: both end in the outer handler of line 194. The
\* Content-Length header is taken to be a number.
EarlyReply(secret, body) ==
    IF ~secret.present \/ secret.value = <<>>
        THEN SendError(500, Msg("Server configuration error"))
    ELSE IF body.kind = "not_utf8"
        THEN SendError(500, Msg("Internal server error"))
    ELSE IF body.kind = "not_json"
        THEN SendError(400, Msg("Invalid JSON in request body"))
    ELSE IF body.kind = "json_other"
        THEN SendError(500, Msg("Internal server error"))
    ELSE IF body.field \in {"missing", "empty"}
        THEN SendError(400, Msg("Missing license_key in request"))
    ELSE IF body.field = "number"
        THEN SendError(500, Msg("Internal server error"))
    ELSE IF ~WellFormed(body.value)
        THEN SendInvalid(Msg("Invalid license key format"))
    ELSE NoReply

\* do_POST lines 28-63: a request with this body arrives and is answered at
\* once or goes on to the store lookup. Requests are taken up in the order
\* of their numbers (they are interchangeable).
Receive(r, body) ==
    /\ pc[r] = "idle"
    /\ \A q \in Procs : q < r => pc[q] # "idle"
    /\ LET early == EarlyReply(signing_key, body)
       IN  /\ loc' = [loc EXCEPT ![r].body = body,
                                 ![r].license_key =
                                     IF early = NoReply THEN body.value ELSE <<>>]
           /\ reply' = [reply EXCEPT ![r] = early]
           /\ pc' = [pc EXCEPT ![r] = IF early = NoReply THEN "get" ELSE "done"]
    /\ UNCHANGED <<signing_key, licenses, validations, now, obs, eng, issuance_vars>>

\* A request with any body.
Start(r) == \E body \in Bodies : Receive(r, body)

\* A request that presents K1.
StartRace(r) == Receive(r, KeyField(K1))

\* Database.get_license and do_POST lines 65-91: the lookup fails (500), or
\* finds no row (the 'License not found' log is due), or returns the row.
GetLicense(r) ==
    /\ pc[r] = "get"
    /\ \E ok \in BOOLEAN :
        LET row == IF loc[r].license_key \in Keys
                   THEN licenses[loc[r].license_key] ELSE NoLicense
        IN  /\ obs' = [obs EXCEPT ![r].get = @ + 1]
            /\ IF ~ok
               THEN /\ reply' = [reply EXCEPT ![r] = SendError(500, Msg("Database error"))]
                    /\ pc' = [pc EXCEPT ![r] = "done"]
                    /\ loc' = loc
               ELSE IF ~row.present
               THEN /\ loc' = [loc EXCEPT ![r].fail = "not_found"]
                    /\ pc' = [pc EXCEPT ![r] = "log_fail"]
                    /\ reply' = reply
               ELSE /\ loc' = [loc EXCEPT ![r].license_data = row]
                    /\ pc' = [pc EXCEPT ![r] = "check"]
                    /\ reply' = reply
    /\ UNCHANGED <<signing_key, licenses, validations, now, eng, issuance_vars>>

\* A mutant of the expiry test: a text that cannot be parsed rejects.
IsExpiredFailClosed(expires_at, utcnow) ==
    IF expires_at.kind = "null" THEN FALSE
    ELSE LET expiry_date == FromIsoformat(ReplaceZ(expires_at))
         IN  IF expiry_date.raised THEN TRUE
             ELSE LET gt == DatetimeGreater([wall |-> utcnow, tzinfo |-> "naive"],
                                            expiry_date.value)
                  IN  IF gt.raised THEN FALSE ELSE gt.value

\* do_POST lines 142-165, the expiry test: TRUE iff the request is to be
\* rejected as expired. A null or empty text skips the test; an exception
\* of the parse or of the comparison is caught and the record passes.
IsExpired(expires_at, utcnow) ==
    IF expires_at.kind = "null" THEN FALSE
    ELSE LET expiry_date == FromIsoformat(ReplaceZ(expires_at))
         IN  IF expiry_date.raised THEN FALSE
             ELSE LET gt == DatetimeGreater([wall |-> utcnow, tzinfo |-> "naive"],
                                            expiry_date.value)
                  IN  IF gt.raised THEN FALSE ELSE gt.value

\* A mutant of the checks: status is looked at before the signature.
FirstFailureStatusFirst(rec, secret, utcnow) ==
    LET ver == VerifySignature(rec.license_key, rec.email, rec.tier,
                               rec.signature, secret)
    IN  IF rec.status # ACTIVE THEN "status"
        ELSE IF ver.raised THEN "raised"
        ELSE IF ~ver.value THEN "signature"
        ELSE IF IsExpired(rec.expires_at, utcnow) THEN "expired"
        ELSE "none"

\* A mutant of the checks: expiry is looked at before the status.
FirstFailureExpiryFirst(rec, secret, utcnow) ==
    LET ver == VerifySignature(rec.license_key, rec.email, rec.tier,
                               rec.signature, secret)
    IN  IF ver.raised THEN "raised"
        ELSE IF ~ver.value THEN "signature"
        ELSE IF IsExpired(rec.expires_at, utcnow) THEN "expired"
        ELSE IF rec.status # ACTIVE THEN "status"
        ELSE "none"

\* do_POST lines 101-165, the order of the checks on a fetched row: the
\* first that fails, "raised" when verify_signature raises, else "none".
FirstFailure(rec, secret, utcnow) ==
    LET ver == VerifySignature(rec.license_key, rec.email, rec.tier,
                               rec.signature, secret)
    IN  IF ver.raised THEN "raised"
        ELSE IF ~ver.value THEN "signature"
        ELSE IF rec.status # ACTIVE THEN "status"
        ELSE IF IsExpired(rec.expires_at, utcnow) THEN "expired"
        ELSE "none"

\* do_POST lines 93-165: signature, status and expiry of the fetched row,
\* the expiry against the clock as it reads now.
Check(r) ==
    /\ pc[r] = "check"
    /\ LET rec == loc[r].license_data
           f   == FirstFailure(rec, signing_key.value, now)
       IN  /\ loc' = [loc EXCEPT ![r].fail = IF f = "raised" THEN "none" ELSE f,
                                 ![r].utcnow = IF f \in {"expired", "none"}
                                               THEN now ELSE 0]
           /\ obs' = [obs EXCEPT ![r].checked =
                        CASE f \in {"raised", "signature"} -> "signature"
                          [] f = "status" -> "status"
                          [] OTHER -> "expiry"]
           /\ reply' = [reply EXCEPT ![r] =
                          IF f = "raised"
                          THEN SendError(500, Msg("Internal server error"))
                          ELSE @]
           /\ pc' = [pc EXCEPT ![r] =
                       CASE f = "raised" -> "done"
                         [] f = "none" -> "update"
                         [] OTHER -> "log_fail"]
    /\ UNCHANGED <<signing_key, licenses, validations, now, eng, issuance_vars>>

\* The error_message the failure is logged with.
LogMessage(fail, rec) ==
    CASE fail = "not_found" -> Msg("License not found")
      [] fail = "signature" -> Msg("Invalid signature")
      [] fail = "status" -> [text |-> "License status is ", arg |-> rec.status]
      [] OTHER -> Msg("License expired")

\* The 'error' of the verdict.
ErrorMessage(fail, rec) ==
    CASE fail = "not_found" -> Msg("License not found")
      [] fail = "signature" -> Msg("Invalid license signature")
      [] fail = "status" -> [text |-> "License is ", arg |-> Lower(rec.status)]
      [] OTHER -> Msg("License has expired")

\* A mutant of log_validation: the row is written with success = TRUE.
LogValidationAlwaysTrue(log, license_key, success, error_message, t, r) ==
    Append(log, [license_key |-> license_key, success |-> TRUE,
                 error_message |-> error_message, validated_at |-> IsoFormat(t), req |-> r])

\* Database.log_validation when the insert succeeds: one row appended
\* (req tags the row with the request that wrote it).
LogValidation(log, license_key, success, error_message, t, r) ==
    Append(log, [license_key |-> license_key, success |-> success,
                 error_message |-> error_message, validated_at |-> IsoFormat(t), req |-> r])

\* A mutant of the rejection: the row that was fetched gets a fresh
\* last_validated_at although the request is rejected.
LogFailureStamps(r) ==
    /\ pc[r] = "log_fail"
    /\ \E ok \in BOOLEAN :
        /\ validations' =
              IF ok THEN LogValidation(validations, loc[r].license_key, FALSE,
                                       LogMessage(loc[r].fail, loc[r].license_data),
                                       now, r)
              ELSE validations
        /\ obs' = [obs EXCEPT ![r].log = @ + 1, ![r].log_ok = ok]
    /\ licenses' =
          IF loc[r].license_data.present
          THEN [licenses EXCEPT ![loc[r].license_key].last_validated_at =
                                    IsoFormat(now + 1)]
          ELSE licenses
    /\ reply' = [reply EXCEPT ![r] =
                    SendInvalid(ErrorMessage(loc[r].fail, loc[r].license_data))]
    /\ pc' = [pc EXCEPT ![r] = "done"]
    /\ UNCHANGED <<signing_key, now, loc, eng, issuance_vars>>

\* do_POST lines 74-91, 102-119, 122-139, 145-162: a rejection is logged
\* (the failure of the insert is swallowed) and the verdict is sent.
LogFailure(r) ==
    /\ pc[r] = "log_fail"
    /\ \E ok \in BOOLEAN :
        /\ validations' =
              IF ok THEN LogValidation(validations, loc[r].license_key, FALSE,
                                       LogMessage(loc[r].fail, loc[r].license_data),
                                       now, r)
              ELSE validations
        /\ obs' = [obs EXCEPT ![r].log = @ + 1, ![r].log_ok = ok]
    /\ reply' = [reply EXCEPT ![r] =
                    SendInvalid(ErrorMessage(loc[r].fail, loc[r].license_data))]
    /\ pc' = [pc EXCEPT ![r] = "done"]
    /\ UNCHANGED <<signing_key, licenses, now, loc, eng, issuance_vars>>

\* A mutant of the update: the stored counter is incremented in the store.
UpdateLicenseValidationAtomic(tbl, license_key, validation_count, t) ==
    [tbl EXCEPT ![license_key].validation_count = @ + 1,
                ![license_key].last_validated_at = IsoFormat(t)]

\* A mutant of the update: the time stamp is left as it was.
UpdateLicenseValidationNoStamp(tbl, license_key, validation_count, t) ==
    [tbl EXCEPT ![license_key].validation_count = validation_count]

\* A mutant of the update: the counter stored is one more than the value
\* passed in.
UpdateLicenseValidationPlusOne(tbl, license_key, validation_count, t) ==
    [tbl EXCEPT ![license_key].validation_count = validation_count + 1,
                ![license_key].last_validated_at = IsoFormat(t)]

\* Database.update_license_validation when the update succeeds: the counter
\* is set to the value passed in, the time stamp to the clock.
UpdateLicenseValidation(tbl, license_key, validation_count, t) ==
    [tbl EXCEPT ![license_key].validation_count = validation_count,
                ![license_key].last_validated_at = IsoFormat(t)]

\* A mutant of the update step: a failure of the update ends the request
\* with a 500.
UpdateValidationAborts(r) ==
    /\ pc[r] = "update"
    /\ \E ok \in BOOLEAN :
        LET hit == ok /\ licenses[loc[r].license_key].present
        IN  /\ licenses' =
                  IF hit
                  THEN UpdateLicenseValidation(licenses, loc[r].license_key,
                           loc[r].license_data.validation_count + 1, now)
                  ELSE licenses
            /\ obs' = [obs EXCEPT ![r].upd = @ + 1, ![r].upd_ok = hit]
            /\ pc' = [pc EXCEPT ![r] = IF hit THEN "log_ok" ELSE "done"]
            /\ reply' = [reply EXCEPT ![r] =
                            IF hit THEN @
                            ELSE SendError(500, Msg("Internal server error"))]
    /\ UNCHANGED <<signing_key, validations, now, loc, eng, issuance_vars>>

\* do_POST lines 167-172: the counter read at the lookup, plus one, is
\* written; a failure of the update is swallowed.
UpdateValidation(r) ==
    /\ pc[r] = "update"
    /\ \E ok \in BOOLEAN :
        LET hit == ok /\ licenses[loc[r].license_key].present
        IN  /\ licenses' =
                  IF hit
                  THEN UpdateLicenseValidation(licenses, loc[r].license_key,
                           loc[r].license_data.validation_count + 1, now)
                  ELSE licenses
            /\ obs' = [obs EXCEPT ![r].upd = @ + 1, ![r].upd_ok = hit]
    /\ pc' = [pc EXCEPT ![r] = "log_ok"]
    /\ UNCHANGED <<signing_key, validations, now, loc, reply, eng, issuance_vars>>

\* A mutant of the success log: a failure of the insert ends the request
\* with a 500.
LogSuccessAborts(r) ==
    /\ pc[r] = "log_ok"
    /\ \E ok \in BOOLEAN :
        /\ validations' =
              IF ok THEN LogValidation(validations, loc[r].license_key, TRUE,
                                       Msg(""), now, r)
              ELSE validations
        /\ obs' = [obs EXCEPT ![r].log = @ + 1, ![r].log_ok = ok]
        /\ reply' = [reply EXCEPT ![r] =
                        IF ok THEN SendValid(loc[r].license_data)
                        ELSE SendError(500, Msg("Internal server error"))]
    /\ pc' = [pc EXCEPT ![r] = "done"]
    /\ UNCHANGED <<signing_key, licenses, now, loc, eng, issuance_vars>>

\* do_POST lines 174-192: the success is logged (a failure of the insert is
\* swallowed) and the verdict valid: true is sent.
LogSuccess(r) ==
    /\ pc[r] = "log_ok"
    /\ \E ok \in BOOLEAN :
        /\ validations' =
              IF ok THEN LogValidation(validations, loc[r].license_key, TRUE,
                                       Msg(""), now, r)
              ELSE validations
        /\ obs' = [obs EXCEPT ![r].log = @ + 1, ![r].log_ok = ok]
    /\ reply' = [reply EXCEPT ![r] = SendValid(loc[r].license_data)]
    /\ pc' = [pc EXCEPT ![r] = "done"]
    /\ UNCHANGED <<signing_key, licenses, now, loc, eng, issuance_vars>>

\* Time passes.
Tick ==
    /\ now < MaxTime
    /\ now' = now + 1
    /\ UNCHANGED <<signing_key, licenses, validations, pc, loc, reply, obs, eng, issuance_vars>>

Next ==
    \/ \E r \in Reqs : Start(r)
    \/ \E r \in Reqs : GetLicense(r)
    \/ \E r \in Reqs : Check(r)
    \/ \E r \in Reqs : LogFailure(r)
    \/ \E r \in Reqs : UpdateValidation(r)
    \/ \E r \in Reqs : LogSuccess(r)
    \/ Tick

\* Requests with bodies of every kind against stored rows of every kind.
Spec == Init /\ [][Next]_vars

\* ------------------------------------------- overlapping validations of K1

\* K1 has an ACTIVE row with a good signature; its expiry is absent or lies
\* inside the clock's range. The requests are those of the set given.
InitOverlap(reqs) ==
    /\ signing_key = EnvSet(HexSecret)
    /\ licenses \in {[k \in Keys |-> IF k = K1 THEN rec ELSE NoLicense] :
                        rec \in {x \in InitialRecords :
                                    /\ x.signature = GoodSig
                                    /\ x.status = ACTIVE
                                    /\ x.expires_at \in {NullTime, IsoFormat(ExpiryTime)}}}
    /\ validations = <<>>
    /\ now = 0
    /\ pc = [r \in reqs |-> "idle"]
    /\ loc = [r \in reqs |-> NoLocals]
    /\ reply = [r \in reqs |-> NoReply]
    /\ obs = [r \in reqs |-> NoObs]
    /\ eng = NoEng
    /\ IssuanceOff

InitPair == InitOverlap(PairReqs)
InitRace == InitOverlap(RaceReqs)

NextPair ==
    \/ \E r \in PairReqs : StartRace(r)
    \/ \E r \in PairReqs : GetLicense(r)
    \/ \E r \in PairReqs : Check(r)
    \/ \E r \in PairReqs : LogFailure(r)
    \/ \E r \in PairReqs : UpdateValidation(r)
    \/ \E r \in PairReqs : LogSuccess(r)
    \/ Tick

NextRace ==
    \/ \E r \in RaceReqs : StartRace(r)
    \/ \E r \in RaceReqs : GetLicense(r)
    \/ \E r \in RaceReqs : Check(r)
    \/ \E r \in RaceReqs : LogFailure(r)
    \/ \E r \in RaceReqs : UpdateValidation(r)
    \/ \E r \in RaceReqs : LogSuccess(r)
    \/ Tick

\* Two overlapping validations of K1.
SpecPair == InitPair /\ [][NextPair]_vars

\* Three overlapping validations of K1.
SpecRace == InitRace /\ [][NextRace]_vars

\* ------------------------------------------------ the engine on its own

InitSign ==
    /\ signing_key = EnvUnset
    /\ licenses = [k \in Keys |-> NoLicense]
    /\ validations = <<>>
    /\ now = 0
    /\ pc = [r \in Reqs |-> "idle"]
    /\ loc = [r \in Reqs |-> NoLocals]
    /\ reply = [r \in Reqs |-> NoReply]
    /\ obs = [r \in Reqs |-> NoObs]
    /\ eng \in {[NoEng EXCEPT !.stage = "init", !.key = k, !.email = e,
                              !.tier = t, !.secret = s, !.key2 = k2,
                              !.email2 = e2, !.tier2 = t2, !.secret2 = s2] :
                   k \in EngKeys, e \in EngEmails, t \in EngTiers,
                   s \in EngSecrets, k2 \in EngKeys, e2 \in EngEmails,
                   t2 \in EngTiers, s2 \in EngSecrets}
    /\ IssuanceOff

\* sign_license(key, email, tier, secret)
EngSign ==
    /\ eng.stage = "init"
    /\ eng' = [eng EXCEPT !.stage = "signed",
                          !.sig = SignLicense(eng.key, eng.email, eng.tier, eng.secret)]
    /\ UNCHANGED <<signing_key, licenses, validations, now, pc, loc, reply, obs,
                   issuance_vars>>

\* verify_signature(key2, email2, tier2, the signature made, secret2)
EngVerify ==
    /\ eng.stage = "signed"
    /\ ~eng.sig.raised
    /\ eng' = [eng EXCEPT !.stage = "verified",
                          !.ok = VerifySignature(eng.key2, eng.email2, eng.tier2,
                                                 eng.sig.value, eng.secret2)]
    /\ UNCHANGED <<signing_key, licenses, validations, now, pc, loc, reply, obs,
                   issuance_vars>>

NextSign == EngSign \/ EngVerify

SpecSign == InitSign /\ [][NextSign]_vars

\* ------------------------------------------------- issuance (the webhook)

\* timedelta(days=30): the clock counts periods of thirty days.
ThirtyDays == 1

STARTER == <<"S", "T", "A", "R", "T", "E", "R">>

\* The Stripe-Signature header: missing, or made with some secret.
NoHeader == [secret |-> <<>>, present |-> FALSE]
SignedWith(secret) == [secret |-> secret, present |-> TRUE]
ForgedSecret == <<"f", "o", "r", "g", "e", "d">>

\* A checkout session: customer_details (absent, or an object whose email
\* may be null), customer_email, customer, and metadata.tier (<<>> is None).
Session(details, details_email, customer_email, customer, has_tier) ==
    [customer_email |-> customer_email,
     customer |-> customer, customer_details |-> [email |-> details_email, present |-> details],
     metadata |-> [tier |-> IF has_tier THEN Tier1 ELSE <<>>, has_tier |-> has_tier]]
NoSession == Session(FALSE, <<>>, <<>>, <<>>, FALSE)
CustomerId == <<"c", "u", "s">>

\* Sessions without a payer email, and sessions with one.
SessionsNoEmail ==
    {Session(d, <<>>, <<>>, c, FALSE) : d \in BOOLEAN, c \in {<<>>, CustomerId}}
SessionsEmail ==
    {Session(TRUE, Email1, ce, CustomerId, t) : ce \in {<<>>, Email2}, t \in BOOLEAN}
    \cup {Session(d, <<>>, Email2, CustomerId, t) : d \in BOOLEAN, t \in BOOLEAN}

\* A delivery to the webhook: the header, whether the payload is JSON, the
\* event's type and its session.
Delivery(header, json, type, session) ==
    [json |-> json, type |-> type, session |-> session, sig_header |-> header]
NoEvent == Delivery(NoHeader, FALSE, "none", NoSession)

\* Deliveries that are not verified, and verified ones.
Unverified ==
    {Delivery(hd, TRUE, "checkout.session.completed",
              Session(TRUE, Email1, <<>>, CustomerId, TRUE)) :
        hd \in {NoHeader, SignedWith(ForgedSecret)}}
Verified ==
    {Delivery(SignedWith(WebhookSecret), FALSE, "none", NoSession),
     Delivery(SignedWith(WebhookSecret), TRUE, "invoice.paid", NoSession)}
    \cup {Delivery(SignedWith(WebhookSecret), TRUE, "checkout.session.completed", ss) :
            ss \in SessionsNoEmail \cup SessionsEmail}
Events == Unverified \cup Verified

\* A mutant of the verification: the header is not compared with the secret.
ConstructEventUnchecked(event, sig_header, webhook_secret) ==
    IF ~event.json THEN "payload" ELSE "ok"

\* stripe.Webhook.construct_event: "signature" for SignatureVerificationError
\* (the header was not made with the secret), "payload" for ValueError (the
\* payload is no JSON), else "ok".
ConstructEvent(event, sig_header, webhook_secret) ==
    IF sig_header.secret # webhook_secret THEN "signature"
    ELSE IF ~event.json THEN "payload"
    ELSE "ok"

\* A mutant of the extraction: the customer id stands in for the email.
CustomerEmailOrId(session) ==
    LET first == IF session.customer_details.present
                 THEN session.customer_details.email ELSE <<>>
    IN  IF first # <<>> THEN first
        ELSE IF session.customer_email # <<>> THEN session.customer_email
        ELSE session.customer

\* do_POST lines 117-131: customer_details.email, else customer_email.
CustomerEmail(session) ==
    LET first == IF session.customer_details.present
                 THEN session.customer_details.email ELSE <<>>
    IN  IF first # <<>> THEN first ELSE session.customer_email

\* do_POST line 158: metadata.tier, 'STARTER' when it is absent.
TierOf(session) ==
    IF session.metadata.has_tier THEN session.metadata.tier ELSE STARTER

\* A mutant of the configuration check: STRIPE_SECRET_KEY is not looked at.
MissingSecretsNoApiKey(env, secret) ==
    (IF ~env.webhook_secret.present \/ env.webhook_secret.value = <<>>
     THEN <<"STRIPE_WEBHOOK_SECRET">> ELSE <<>>)
    \o (IF ~secret.present \/ secret.value = <<>>
        THEN <<"LICENSE_SIGNING_KEY">> ELSE <<>>)

\* do_POST lines 49-56: the names of the secrets that are missing.
MissingSecrets(env, secret) ==
    (IF ~env.stripe_api_key.present \/ env.stripe_api_key.value = <<>>
     THEN <<"STRIPE_SECRET_KEY">> ELSE <<>>)
    \o (IF ~env.webhook_secret.present \/ env.webhook_secret.value = <<>>
        THEN <<"STRIPE_WEBHOOK_SECRET">> ELSE <<>>)
    \o (IF ~secret.present \/ secret.value = <<>>
        THEN <<"LICENSE_SIGNING_KEY">> ELSE <<>>)

\* Responses of the webhook: _send_error and _send_success.
NoHookReply ==
    [message |-> "", license_key |-> <<>>, email |-> <<>>, tier |-> <<>>,
     code |-> 0, error |-> Msg("")]
HookError(status_code, message) ==
    [NoHookReply EXCEPT !.code = status_code, !.error = message]
HookSuccess(message) == [NoHookReply EXCEPT !.code = 200, !.message = message]
HookIssued(license_key, email, tier) ==
    [NoHookReply EXCEPT !.code = 200, !.message = "License generated successfully",
                        !.license_key = license_key, !.email = email, !.tier = tier]

\* do_POST's locals and history, per delivery: generated, inserts and sends
\* count the calls of generate_license_key, insert_license and
\* send_license_email; insert_ok and send_ok tell how the call ended.
NoHook ==
    [pc |-> "idle", reply |-> NoHookReply, license_data |-> NoLicense,
     event |-> NoEvent, generated |-> 0, inserts |-> 0, insert_ok |-> FALSE,
     sends |-> 0, send_ok |-> FALSE]

\* do_POST lines 175-189: the row prepared for the store.
LicenseData(license_key, signature, customer_email, tier, t) ==
    [license_key |-> license_key, email |-> customer_email, tier |-> tier,
     signature |-> signature, present |-> TRUE, status |-> ACTIVE,
     expires_at |-> IsoFormat(t + ThirtyDays), validation_count |-> 0,
     last_validated_at |-> NullTime]

\* do_POST lines 37-189 on a delivery, with the bytes the generator drew:
\* the response sent before the store is touched, or none, with the row
\* prepared and the number of keys generated.
Prepare(env, secret, event, random_bytes, t) ==
    LET missing == MissingSecrets(env, secret)
        verdict == ConstructEvent(event, event.sig_header, env.webhook_secret.value)
        customer_email == CustomerEmail(event.session)
        tier == TierOf(event.session)
        license_key == GenerateLicenseKey(random_bytes)
        signature == SignLicense(license_key, customer_email, tier, secret.value)
        stop(r) == [reply |-> r, license_data |-> NoLicense, generated |-> 0]
    IN  IF missing # <<>>
            THEN stop(HookError(500, [text |-> "Server configuration error: Missing ",
                                      arg |-> missing]))
        ELSE IF ~event.sig_header.present
            THEN stop(HookError(400, Msg("Missing Stripe signature")))
        ELSE IF verdict = "signature"
            THEN stop(HookError(400, Msg("Invalid signature")))
        ELSE IF verdict = "payload"
            THEN stop(HookError(400, Msg("Invalid payload")))
        ELSE IF event.type # "checkout.session.completed"
            THEN stop(HookSuccess("received but not processed"))
        ELSE IF customer_email = <<>> /\ event.session.customer # <<>>
            THEN stop(HookError(400, [text |-> "No customer email found in session. Customer ID: ",
                                      arg |-> event.session.customer]))
        ELSE IF customer_email = <<>>
            THEN stop(HookError(400, Msg("Missing customer email in session")))
        ELSE IF signature.raised
            THEN [reply |-> HookError(500, Msg("Internal server error")),
                  license_data |-> NoLicense, generated |-> 1]
        ELSE [reply |-> NoHookReply,
              license_data |-> LicenseData(license_key, signature.value,
                                           customer_email, tier, t),
              generated |-> 1]

\* do_POST lines 29-189: a delivery arrives and is answered at once, or a
\* key is generated and signed and the row is ready for the store.
\* Deliveries are taken up in the order of their numbers.
HookReceive(h, event) ==
    /\ hook[h].pc = "idle"
    /\ \A g \in DOMAIN hook : g < h => hook[g].pc # "idle"
    /\ \E random_bytes \in RandomBytes :
        LET p == Prepare(environ, signing_key, event, random_bytes, now)
        IN  hook' = [hook EXCEPT ![h].event = event,
                                 ![h].license_data = p.license_data,
                                 ![h].reply = p.reply,
                                 ![h].generated = p.generated,
                                 ![h].pc = IF p.reply = NoHookReply
                                           THEN "insert" ELSE "done"]
    /\ UNCHANGED <<signing_key, licenses, validations, now, pc, loc, reply, obs,
                   eng, environ, outbox, status_calls>>

\* A delivery of any kind.
HookStart(h) == \E event \in Events : HookReceive(h, event)

\* Database.insert_license when the insert succeeds: the row is in the table.
InsertLicense(tbl, license_data) ==
    [tbl EXCEPT ![license_data.license_key] = license_data]

\* A mutant of the insert step: a failure of the store is swallowed and
\* the handler goes on to the email.
HookInsertContinues(h) ==
    /\ hook[h].pc = "insert"
    /\ \E ok \in BOOLEAN :
        LET hit == ok /\ ~licenses[hook[h].license_data.license_key].present
        IN  /\ licenses' = IF hit THEN InsertLicense(licenses, hook[h].license_data)
                           ELSE licenses
            /\ hook' = [hook EXCEPT ![h].inserts = @ + 1,
                                    ![h].insert_ok = hit,
                                    ![h].pc = "email"]
    /\ UNCHANGED <<signing_key, validations, now, pc, loc, reply, obs, eng,
                   environ, outbox, status_calls>>

\* do_POST lines 191-203: the row is stored, or the store fails (a key that
\* has a row already is refused by the table's unique constraint) and the
\* response is 500.
HookInsert(h) ==
    /\ hook[h].pc = "insert"
    /\ \E ok \in BOOLEAN :
        LET hit == ok /\ ~licenses[hook[h].license_data.license_key].present
        IN  /\ licenses' = IF hit THEN InsertLicense(licenses, hook[h].license_data)
                           ELSE licenses
            /\ hook' = [hook EXCEPT ![h].inserts = @ + 1,
                                    ![h].insert_ok = hit,
                                    ![h].pc = IF hit THEN "email" ELSE "done",
                                    ![h].reply = IF hit THEN @
                                                 ELSE HookError(500, Msg("Database error"))]
    /\ UNCHANGED <<signing_key, validations, now, pc, loc, reply, obs, eng,
                   environ, outbox, status_calls>>

\* send_license_email when the mail service accepts the message.
SendLicenseEmail(box, email, license_key, tier, h) ==
    Append(box, [license_key |-> license_key, tier |-> tier, hook |-> h,
                 to |-> email])

\* A mutant of the email step: a failure of the send ends in a 500.
HookEmailAborts(h) ==
    /\ hook[h].pc = "email"
    /\ LET d == hook[h].license_data
       IN  \E ok \in BOOLEAN :
            /\ outbox' = IF ok THEN SendLicenseEmail(outbox, d.email, d.license_key,
                                                      d.tier, h)
                         ELSE outbox
            /\ hook' = [hook EXCEPT ![h].sends = @ + 1,
                                    ![h].send_ok = ok,
                                    ![h].pc = "done",
                                    ![h].reply =
                                        IF ok THEN HookIssued(d.license_key, d.email, d.tier)
                                        ELSE HookError(500, Msg("Internal server error"))]
    /\ UNCHANGED <<signing_key, licenses, validations, now, pc, loc, reply, obs,
                   eng, environ, status_calls>>

\* do_POST lines 205-224: the activation email is sent (a failure is
\* swallowed) and the response is 200 with the key, the email and the tier.
HookEmail(h) ==
    /\ hook[h].pc = "email"
    /\ LET d == hook[h].license_data
       IN  \E ok \in BOOLEAN :
            /\ outbox' = IF ok THEN SendLicenseEmail(outbox, d.email, d.license_key,
                                                      d.tier, h)
                         ELSE outbox
            /\ hook' = [hook EXCEPT ![h].sends = @ + 1,
                                    ![h].send_ok = ok,
                                    ![h].pc = "done",
                                    ![h].reply = HookIssued(d.license_key, d.email, d.tier)]
    /\ UNCHANGED <<signing_key, licenses, validations, now, pc, loc, reply, obs,
                   eng, environ, status_calls>>

\* A mutant of the status update: a cancelled license loses its row.
SetLicenseStatusDeletes(tbl, license_key, new_status, t) ==
    IF new_status = CANCELLED THEN [tbl EXCEPT ![license_key] = NoLicense]
    ELSE [tbl EXCEPT ![license_key].status = new_status,
                     ![license_key].last_validated_at = IsoFormat(t)]

\* Database.update_license_status when the update succeeds.
SetLicenseStatus(tbl, license_key, new_status, t) ==
    [tbl EXCEPT ![license_key].status = new_status,
                ![license_key].last_validated_at = IsoFormat(t)]

\* Database.update_license_status, called for a billing event of a
\* subscription: ValueError on a status outside the three, an exception
\* when the store fails or the key has no row, else the row is updated.
UpdateLicenseStatus(license_key, new_status) ==
    /\ status_calls < MaxStatusUpdates
    /\ status_calls' = status_calls + 1
    /\ \E ok \in BOOLEAN :
        licenses' =
            IF /\ new_status \in {ACTIVE, SUSPENDED, CANCELLED}
               /\ ok /\ licenses[license_key].present
            THEN SetLicenseStatus(licenses, license_key, new_status, now)
            ELSE licenses
    /\ UNCHANGED <<signing_key, validations, now, pc, loc, reply, obs, eng,
                   environ, hook, outbox>>

\* The statuses update_license_status is called with: reactivation,
\* cancellation, and a status outside the three.
NewStatuses == {ACTIVE, CANCELLED, TrialStatus}

\* A validation request that presents K1 or a key issuance can mint.
StartIssued(r) == \E k \in {K1} \cup GenKeys : Receive(r, KeyField(k))

\* Values of the environment: each secret set or unset.
Environs ==
    {[stripe_api_key |-> a, webhook_secret |-> w] :
        a \in {EnvUnset, EnvSet(<<"s", "k">>)},
        w \in {EnvUnset, EnvSet(WebhookSecret)}}

\* K1 has an ACTIVE row with a good signature and no expiry; the keys of
\* issuance have none yet. The secrets are drawn from the sets given.
InitWebhook(secrets, envs) ==
    /\ signing_key \in secrets
    /\ environ \in envs
    /\ licenses = [k \in Keys |->
                     IF k = K1
                     THEN [NoLicense EXCEPT !.present = TRUE, !.license_key = K1,
                                            !.signature = GoodSig, !.email = Email1,
                                            !.tier = Tier1, !.status = ACTIVE]
                     ELSE NoLicense]
    /\ validations = <<>>
    /\ now = 0
    /\ pc = [r \in Reqs |-> "idle"]
    /\ loc = [r \in Reqs |-> NoLocals]
    /\ reply = [r \in Reqs |-> NoReply]
    /\ obs = [r \in Reqs |-> NoObs]
    /\ eng = NoEng
    /\ hook = [h \in Hooks |-> NoHook]
    /\ outbox = <<>>
    /\ status_calls = 0

\* Every configuration of the secrets.
InitIssue == InitWebhook(SigningKeys, Environs)

NextIssue ==
    \/ \E h \in Hooks : HookStart(h)
    \/ \E h \in Hooks : HookInsert(h)
    \/ \E h \in Hooks : HookEmail(h)
    \/ Tick

\* Deliveries of every kind to the webhook, under every configuration.
SpecIssue == InitIssue /\ [][NextIssue]_vars

\* A verified checkout.session.completed event with a payer email and a
\* tier.
HookPaid(h) ==
    HookReceive(h, Delivery(SignedWith(WebhookSecret), TRUE,
                            "checkout.session.completed",
                            Session(TRUE, Email1, <<>>, CustomerId, TRUE)))

\* All secrets are set, the signing secret is hexadecimal.
InitLife == InitWebhook({EnvSet(HexSecret)}, {EnvironSet})

NextLife ==
    \/ \E h \in Hooks : HookPaid(h)
    \/ \E h \in Hooks : HookInsert(h)
    \/ \E h \in Hooks : HookEmail(h)
    \/ \E k \in {K1} \cup GenKeys, st \in NewStatuses : UpdateLicenseStatus(k, st)
    \/ \E r \in Reqs : StartIssued(r)
    \/ \E r \in Reqs : GetLicense(r)
    \/ \E r \in Reqs : Check(r)
    \/ \E r \in Reqs : LogFailure(r)
    \/ \E r \in Reqs : UpdateValidation(r)
    \/ \E r \in Reqs : LogSuccess(r)

\* The life of license records: issuance, status updates and validations
\* (the clock stands still).
SpecLife == InitLife /\ [][NextLife]_vars

\* Every configuration in which a secret of the webhook is missing.
InitConfig ==
    /\ InitWebhook(SigningKeys, Environs)
    /\ ~(environ = EnvironSet /\ signing_key.present)

\* The webhook answers every delivery at once when a secret is missing: its
\* later steps do not occur.
NextConfig ==
    \/ \E h \in Hooks : HookStart(h)
    \/ \E r \in Reqs : Start(r)
    \/ \E r \in Reqs : GetLicense(r)
    \/ \E r \in Reqs : Check(r)
    \/ \E r \in Reqs : LogFailure(r)
    \/ \E r \in Reqs : UpdateValidation(r)
    \/ \E r \in Reqs : LogSuccess(r)

\* Both endpoints with a secret missing (the clock stands still).
SpecConfig == InitConfig /\ [][NextConfig]_vars

\* ------------------------------------------------------------ properties

\* The rows of the audit log that request r wrote.
EntriesOf(r) == {i \in DOMAIN validations : validations[i].req = r}

\* Request r fetched a row of the store.
Fetched(r) == loc[r].license_data.present

\* The signing secret decodes as hexadecimal.
SecretIsHex == signing_key.present /\ ~FromHex(signing_key.value).raised

\* The signature recomputed over the key and the fetched row's email and
\* tier equals the stored one.
SignatureMatches(r) ==
    LET rec == loc[r].license_data
    IN  rec.signature =
          SignLicense(rec.license_key, rec.email, rec.tier, signing_key.value).value

\* C1: a finished validation whose fetched row carries a signature other
\* than the one recomputed with the (hexadecimal) signing secret was
\* answered {valid: false, error: "Invalid license signature"}, whatever the
\* row's status and expiry, and made no counter update: the row is as fetched.
C1_SignatureFirst ==
    \A r \in Procs :
        (pc[r] = "done" /\ Fetched(r) /\ SecretIsHex /\ ~SignatureMatches(r))
        => /\ reply[r] = SendInvalid(Msg("Invalid license signature"))
           /\ obs[r].upd = 0
           /\ licenses[loc[r].license_key] = loc[r].license_data

C1_Witness ==
    \E r \in Procs :
        /\ pc[r] = "done" /\ Fetched(r) /\ SecretIsHex /\ ~SignatureMatches(r)
        /\ loc[r].license_data.status = ACTIVE
        /\ loc[r].license_data.expires_at = NullTime
        /\ reply[r].error = Msg("Invalid license signature")

\* C2: a finished validation whose row passed the signature and status
\* checks and whose stored expiry parses is answered "License has expired",
\* with no counter update, when the expiry denotes an instant before the
\* clock's reading at the check, and valid: true when it denotes a later
\* one; with or without a 'Z' suffix or offset.
C2_ExpiryDecides ==
    \A r \in Procs :
        (/\ pc[r] = "done" /\ obs[r].checked = "expiry"
         /\ loc[r].license_data.expires_at.kind = "iso")
        => /\ Instant(loc[r].license_data.expires_at) < loc[r].utcnow
                => /\ reply[r] = SendInvalid(Msg("License has expired"))
                   /\ obs[r].upd = 0
           /\ Instant(loc[r].license_data.expires_at) > loc[r].utcnow
                => reply[r].valid = "true"

\* C3: verify_signature does not raise, whatever the signing secret, and a
\* finished validation that fetched a row ends in a verdict, not in a 500.
C3_FailsClosed ==
    \A r \in Procs :
        (pc[r] = "done" /\ Fetched(r))
        => /\ ~VerifySignature(loc[r].license_key, loc[r].license_data.email,
                               loc[r].license_data.tier,
                               loc[r].license_data.signature,
                               signing_key.value).raised
           /\ reply[r].code = 200
           /\ reply[r].valid \in {"true", "false"}

\* C4: no step makes a stored validation_count smaller.
C4_CounterMonotonic ==
    [][\A k \in Keys :
          licenses'[k].validation_count >= licenses[k].validation_count]_vars

\* C5, with the secret unchanged: a signature made of (key, email, tier) is
\* rejected by verify_signature for every other (key, email, tier).
C5_TamperDetected ==
    (/\ eng.stage = "verified"
     /\ eng.secret2 = eng.secret
     /\ <<eng.key2, eng.email2, eng.tier2>> # <<eng.key, eng.email, eng.tier>>)
    => eng.ok = Returned(FALSE)

\* C6: a finished validation whose license_key is a string that does not
\* start with 'COMPL-' or has not 24 characters (the signing secret being
\* configured) was answered {valid: false, error: "Invalid license key
\* format"}, and made no call of get_license, log_validation or
\* update_license_validation: no row of the audit log is its own.
C6_FormatBeforeStore ==
    \A r \in Procs :
        (/\ pc[r] = "done"
         /\ signing_key.present /\ signing_key.value # <<>>
         /\ loc[r].body.kind = "object" /\ loc[r].body.field = "string"
         /\ ~(StartsWith(loc[r].body.value, Prefix) /\ Len(loc[r].body.value) = KeyLen))
        => /\ reply[r] = SendInvalid(Msg("Invalid license key format"))
           /\ obs[r].get = 0 /\ obs[r].log = 0 /\ obs[r].upd = 0
           /\ EntriesOf(r) = {}

C6_Witness ==
    \E r \in Procs :
        /\ pc[r] = "done"
        /\ loc[r].body = KeyField(NotAKey)
        /\ reply[r] = SendInvalid(Msg("Invalid license key format"))
        /\ obs[r].get = 0

\* The lookup of request r returned and found no row.
NotFound(r) == pc[r] = "done" /\ loc[r].fail = "not_found"

\* C7 as stated: a finished validation whose lookup found no row was
\* answered {valid: false, error: "License not found"}, exactly one row of
\* the audit log is its own, with success = false, and the key has no row.
C7_NotFoundLogsOne ==
    \A r \in Procs :
        NotFound(r)
        => /\ reply[r] = SendInvalid(Msg("License not found"))
           /\ Cardinality(EntriesOf(r)) = 1
           /\ \A i \in EntriesOf(r) : ~validations[i].success
           /\ obs[r].upd = 0
           /\ licenses[loc[r].license_key] = NoLicense

\* C7 amended: a finished validation whose lookup found no row was answered
\* {valid: false, error: "License not found"} and called log_validation
\* once, with success = false: one row of the audit log is its own when the
\* insert succeeded and none when it failed; the key has no row.
C7_NotFoundLogsOnce ==
    \A r \in Procs :
        NotFound(r)
        => /\ reply[r] = SendInvalid(Msg("License not found"))
           /\ obs[r].log = 1
           /\ Cardinality(EntriesOf(r)) = (IF obs[r].log_ok THEN 1 ELSE 0)
           /\ \A i \in EntriesOf(r) :
                 /\ ~validations[i].success
                 /\ validations[i].license_key = loc[r].license_key
                 /\ validations[i].error_message = Msg("License not found")
           /\ obs[r].upd = 0
           /\ licenses[loc[r].license_key] = NoLicense

C7_Witness ==
    \E r \in Procs :
        /\ NotFound(r) /\ obs[r].log_ok
        /\ Cardinality(EntriesOf(r)) = 1
        /\ reply[r].error = Msg("License not found")

\* C8: a finished validation whose fetched row passed the signature check
\* and has a status other than ACTIVE was answered 200 {valid: false, error:
\* "License is <status in lower case>"}, logged one failed attempt (one call
\* of log_validation with success = false, whose row is in the audit log
\* unless the insert failed), and reached neither the expiry check nor the
\* update.
C8_StatusRejected ==
    \A r \in Procs :
        (/\ pc[r] = "done" /\ Fetched(r) /\ SecretIsHex /\ SignatureMatches(r)
         /\ loc[r].license_data.status # ACTIVE)
        => /\ reply[r] = SendInvalid([text |-> "License is ",
                                      arg |-> Lower(loc[r].license_data.status)])
           /\ reply[r].code = 200
           /\ obs[r].log = 1
           /\ Cardinality(EntriesOf(r)) = (IF obs[r].log_ok THEN 1 ELSE 0)
           /\ \A i \in EntriesOf(r) :
                 /\ ~validations[i].success
                 /\ validations[i].error_message =
                       [text |-> "License status is ",
                        arg |-> loc[r].license_data.status]
           /\ obs[r].checked = "status"
           /\ obs[r].upd = 0

C8_Witness ==
    \E r \in Procs :
        /\ pc[r] = "done" /\ Fetched(r) /\ SignatureMatches(r)
        /\ loc[r].license_data.status = SUSPENDED
        /\ loc[r].license_data.expires_at = IsoFormat(ExpiryTime)
        /\ loc[r].license_data.expires_at.wall < now
        /\ reply[r].error =
              [text |-> "License is ",
               arg |-> <<"s", "u", "s", "p", "e", "n", "d", "e", "d">>]
        /\ Cardinality(EntriesOf(r)) = 1

\* Request r's update_license_validation reaches the store in this step.
UpdateDone(r) == pc[r] = "update" /\ pc'[r] = "log_ok" /\ obs'[r].upd_ok

\* C9 as stated: a successful update leaves the stored counter at the value
\* the store held immediately before it plus 1, and last_validated_at at
\* the clock's reading, whatever other validations are in flight.
C9_IncrementsStored ==
    [][\A r \in Procs :
          UpdateDone(r)
          => LET k == loc[r].license_key
             IN  /\ licenses'[k].validation_count = licenses[k].validation_count + 1
                 /\ licenses'[k].last_validated_at = IsoFormat(now)]_vars

\* C9 amended: a successful update leaves the stored counter at the value
\* the request read at its lookup plus 1, which is the store's value before
\* the update plus 1 when no other update of the key came in between, and
\* last_validated_at at the clock's reading; no other row changes.
C9_IncrementsRead ==
    [][\A r \in Procs :
          UpdateDone(r)
          => LET k == loc[r].license_key
             IN  /\ licenses'[k].validation_count =
                        loc[r].license_data.validation_count + 1
                 /\ licenses[k].validation_count = loc[r].license_data.validation_count
                        => licenses'[k].validation_count =
                               licenses[k].validation_count + 1
                 /\ licenses'[k].last_validated_at = IsoFormat(now)
                 /\ \A j \in Keys \ {k} : licenses'[j] = licenses[j]]_vars

\* A second validation is in flight while the first has written its
\* counter, at a later reading of the clock.
C9_Witness ==
    \E r, q \in Procs :
        /\ r # q
        /\ obs[r].upd_ok /\ pc[q] = "update"
        /\ now > 0
        /\ licenses[K1].last_validated_at = IsoFormat(now)
        /\ licenses[K1].validation_count = loc[r].license_data.validation_count + 1

\* C10, where no insert into the audit log failed: a finished validation
\* that passed the format check (it reached the store lookup) has exactly
\* one row of the audit log, whose success flag equals the response's
\* valid flag.
C10_AuditComplete ==
    \A r \in Procs :
        (pc[r] = "done" /\ obs[r].get >= 1 /\ (obs[r].log = 0 \/ obs[r].log_ok))
        => /\ Cardinality(EntriesOf(r)) = 1
           /\ \A i \in EntriesOf(r) :
                 validations[i].success = (reply[r].valid = "true")

\* Request r's row passed the signature and status checks.
PassedStatus(r) ==
    /\ Fetched(r) /\ SecretIsHex /\ SignatureMatches(r)
    /\ loc[r].license_data.status = ACTIVE

\* The response {valid: true} that echoes the row request r fetched.
ValidEcho(r) ==
    [email |-> loc[r].license_data.email, tier |-> loc[r].license_data.tier,
     status |-> loc[r].license_data.status,
     code |-> 200, valid |-> "true", error |-> Msg("")]

\* C11: a finished validation whose row passed the signature and status
\* checks and was not found expired called update_license_validation and
\* log_validation once each and was answered 200 {valid: true, tier, email,
\* status} with the fetched row's tier, email and status, whether or not the
\* update and the log insert reached the store.
C11_SideEffectsSwallowed ==
    \A r \in Procs :
        (/\ pc[r] = "done" /\ PassedStatus(r)
         /\ ~IsExpired(loc[r].license_data.expires_at, loc[r].utcnow))
        => /\ obs[r].upd = 1 /\ obs[r].log = 1
           /\ reply[r] = ValidEcho(r)

C11_Witness ==
    \E r \in Procs :
        /\ pc[r] = "done" /\ PassedStatus(r)
        /\ obs[r].upd = 1 /\ ~obs[r].upd_ok
        /\ obs[r].log = 1 /\ ~obs[r].log_ok
        /\ validations = <<>>
        /\ licenses[loc[r].license_key].validation_count = 0
        /\ reply[r].valid = "true" /\ reply[r].email = Email1

\* The response a request owes once its checks are done: a function of the
\* request's locals, in which the outcome of no log insert appears.
Verdict(l) ==
    IF l.fail = "none" THEN SendValid(l.license_data)
    ELSE SendInvalid(ErrorMessage(l.fail, l.license_data))

\* C12: every step in which a request calls log_validation, on a rejection
\* path or on the success path, ends the request with the response that the
\* request's locals before the call determine: the same status and body
\* whether the insert into the audit log succeeds or fails.
C12_LoggingNonInterfering ==
    [][\A r \in Procs :
          obs'[r].log = obs[r].log + 1
          => /\ reply'[r] = Verdict(loc[r])
             /\ reply'[r].code = 200
             /\ pc'[r] = "done"
             /\ loc'[r] = loc[r]]_vars

\* A rejection whose log insert failed: the verdict is sent all the same.
C12_Witness ==
    \E r \in Procs :
        /\ pc[r] = "done" /\ obs[r].log = 1 /\ ~obs[r].log_ok
        /\ loc[r].fail = "expired"
        /\ reply[r] = SendInvalid(Msg("License has expired"))

\* C13: a finished validation whose row passed the signature and status
\* checks and whose expiry is null or a text that cannot be parsed went on
\* to the success step and was answered valid: true; and a validation is
\* answered "License has expired" only when the stored expiry parses to an
\* instant before the clock's reading at the check.
C13_ExpiryFailsOpen ==
    \A r \in Procs :
        /\ (/\ pc[r] = "done" /\ PassedStatus(r)
            /\ loc[r].license_data.expires_at.kind \in {"null", "garbage"})
           => /\ obs[r].checked = "expiry"
              /\ obs[r].upd = 1
              /\ reply[r].code = 200 /\ reply[r].valid = "true"
        /\ (pc[r] = "done" /\ reply[r].error = Msg("License has expired"))
           => /\ loc[r].license_data.expires_at.kind = "iso"
              /\ Instant(loc[r].license_data.expires_at) < loc[r].utcnow

C13_Witness ==
    \E r \in Procs :
        /\ pc[r] = "done" /\ PassedStatus(r)
        /\ loc[r].license_data.expires_at = GarbageTime
        /\ obs[r].upd_ok
        /\ reply[r].valid = "true"

\* C14: when two validations of a key that read the same count c at their
\* lookups have both written their update, and no other validation has, the
\* stored count is c + 1; and each of the two, once finished, was answered
\* valid: true.
C14_LastWriteWins ==
    \A r, q \in Procs :
        (/\ r # q
         /\ obs[r].upd_ok /\ obs[q].upd_ok
         /\ loc[r].license_key = loc[q].license_key
         /\ loc[r].license_data.validation_count = loc[q].license_data.validation_count
         /\ \A p \in Procs \ {r, q} : ~obs[p].upd_ok)
        => /\ licenses[loc[r].license_key].validation_count =
                 loc[r].license_data.validation_count + 1
           /\ pc[r] = "done" => reply[r] = ValidEcho(r)
           /\ pc[q] = "done" => reply[q] = ValidEcho(q)

\* Two validations of K1 both read 0, both wrote, both were answered
\* valid: true, both are in the audit log, and the stored count is 1.
C14_Witness ==
    \E r, q \in Procs :
        /\ r # q
        /\ pc[r] = "done" /\ pc[q] = "done"
        /\ obs[r].upd_ok /\ obs[q].upd_ok
        /\ loc[r].license_data.validation_count = 0
        /\ loc[q].license_data.validation_count = 0
        /\ reply[r].valid = "true" /\ reply[q].valid = "true"
        /\ Cardinality({i \in DOMAIN validations : validations[i].success}) = 2
        /\ licenses[K1].validation_count = 1

\* The engine verified against the inputs the signature was made of.
SameInputs ==
    /\ eng.key2 = eng.key /\ eng.email2 = eng.email
    /\ eng.tier2 = eng.tier /\ eng.secret2 = eng.secret

\* C16 as stated: for every key, email, tier and secret, sign_license
\* returns a signature, and verify_signature on the same inputs and that
\* signature returns true.
C16_RoundTripAll ==
    /\ eng.stage \in {"signed", "verified"} => ~eng.sig.raised
    /\ (eng.stage = "verified" /\ SameInputs) => eng.ok = Returned(TRUE)

\* C16 amended: for every key, email and tier, with a secret that is
\* hexadecimal text sign_license returns a signature and verify_signature
\* on the same inputs and that signature returns true; with any other
\* secret sign_license raises and there is no signature to verify.
C16_RoundTripHex ==
    /\ (eng.stage \in {"signed", "verified"} /\ ~FromHex(eng.secret).raised)
       => ~eng.sig.raised
    /\ (eng.stage = "verified" /\ SameInputs) => eng.ok = Returned(TRUE)
    /\ (eng.stage = "signed" /\ FromHex(eng.secret).raised)
       => eng.sig.raised

\* A round trip whose email and tier both hold the delimiter.
C16_Witness ==
    /\ eng.stage = "verified" /\ SameInputs
    /\ eng.email = <<"a", "|", "b">> /\ eng.tier = <<"b", "|", "c">>
    /\ eng.secret = <<"a", "b", "0", "0">>
    /\ eng.ok = Returned(TRUE)

\* The body of request r is the JSON object {"license_key": string} with a
\* string that is not empty.
BodyIsKeyObject(r) ==
    /\ loc[r].body.kind = "object" /\ loc[r].body.field = "string"
    /\ loc[r].body.value # <<>>

\* C17: a finished validation (the signing secret being configured) whose
\* body is not valid JSON, is JSON of another shape, lacks license_key, or
\* carries one that is empty or no string, was answered 400 with an {error}
\* body, not with a verdict nor a 5xx, and made no store call.
C17_MalformedIs400 ==
    \A r \in Procs :
        (/\ pc[r] = "done"
         /\ signing_key.present /\ signing_key.value # <<>>
         /\ ~BodyIsKeyObject(r))
        => /\ reply[r].code = 400
           /\ reply[r].valid = "none"
           /\ reply[r].error # Msg("")
           /\ obs[r].get = 0 /\ obs[r].log = 0 /\ obs[r].upd = 0

\* The deliveries of the run.
HookProcs == DOMAIN hook

\* The four fields a record is issued with.
Identity(rec) == <<rec.present, rec.license_key, rec.email, rec.tier, rec.signature>>

\* C15: no step (of a validation request, of update_license_validation, of
\* update_license_status, of log_validation, of another issuance) removes a
\* row of table licenses or changes its license_key, email, tier or
\* signature; and in every state the key of every row an issuance inserted
\* has a row with the license_key, email, tier and signature it was
\* inserted with.
C15_IdentityImmutable ==
    /\ [][\A k \in Keys :
             licenses[k].present => Identity(licenses'[k]) = Identity(licenses[k])]_vars
    /\ [](\A h \in HookProcs :
             hook[h].insert_ok
             => Identity(licenses[hook[h].license_data.license_key])
                    = Identity(hook[h].license_data))

\* An issued record was cancelled and the record of K1 was validated: both
\* rows are there, with the signatures they had.
C15_Witness ==
    \E h \in HookProcs :
        /\ hook[h].insert_ok
        /\ licenses[hook[h].license_data.license_key].status = CANCELLED
        /\ licenses[hook[h].license_data.license_key].signature =
               hook[h].license_data.signature
        /\ licenses[K1].validation_count = 1
        /\ licenses[K1].signature = GoodSig

\* The three secrets of the webhook are set.
HookConfigured ==
    /\ environ.stripe_api_key.present /\ environ.stripe_api_key.value # <<>>
    /\ environ.webhook_secret.present /\ environ.webhook_secret.value # <<>>
    /\ signing_key.present /\ signing_key.value # <<>>

\* The delivery h carries a Stripe-Signature header made with the webhook
\* secret of the environment.
OriginVerified(h) ==
    /\ hook[h].event.sig_header.present
    /\ environ.webhook_secret.present
    /\ hook[h].event.sig_header.secret = environ.webhook_secret.value

\* Delivery h generated no key, inserted no record and sent no email.
NothingIssued(h) ==
    /\ hook[h].generated = 0 /\ hook[h].inserts = 0 /\ hook[h].sends = 0
    /\ \A i \in DOMAIN outbox : outbox[i].hook # h

\* C18: a delivery that generated a key, inserted a record or sent an email
\* carried a header made with the webhook secret; and a delivery to the
\* configured webhook whose header is missing or was not made with the
\* webhook secret was answered 400 and generated no key, inserted no record
\* and sent no email.
C18_OnlyVerifiedEvents ==
    \A h \in HookProcs :
        /\ ~NothingIssued(h) => OriginVerified(h)
        /\ (hook[h].pc = "done" /\ HookConfigured /\ ~OriginVerified(h))
           => /\ hook[h].reply.code = 400
              /\ hook[h].reply.license_key = <<>>
              /\ NothingIssued(h)

C18_Witness ==
    \E h \in HookProcs :
        /\ hook[h].pc = "done" /\ HookConfigured
        /\ hook[h].event.sig_header = SignedWith(ForgedSecret)
        /\ hook[h].reply = HookError(400, Msg("Invalid signature"))
        /\ NothingIssued(h)

\* The verified delivery h is a checkout.session.completed event whose
\* session has neither customer_details.email nor customer_email.
NoPayerEmail(h) ==
    LET ev == hook[h].event
    IN  /\ OriginVerified(h) /\ ev.json
        /\ ev.type = "checkout.session.completed"
        /\ (~ev.session.customer_details.present
            \/ ev.session.customer_details.email = <<>>)
        /\ ev.session.customer_email = <<>>

\* C19: a verified checkout.session.completed delivery to the configured
\* webhook that carries no payer email was answered with an error response
\* (400) and generated no key, inserted no record and sent no email.
C19_NoEmailIsTerminal ==
    \A h \in HookProcs :
        (hook[h].pc = "done" /\ HookConfigured /\ NoPayerEmail(h))
        => /\ hook[h].reply.code = 400
           /\ hook[h].reply.error # Msg("")
           /\ hook[h].reply.license_key = <<>>
           /\ NothingIssued(h)

C19_Witness ==
    \E h \in HookProcs :
        /\ hook[h].pc = "done" /\ HookConfigured /\ NoPayerEmail(h)
        /\ hook[h].event.session.customer = CustomerId
        /\ hook[h].reply.error =
              [text |-> "No customer email found in session. Customer ID: ",
               arg |-> CustomerId]
        /\ NothingIssued(h)

\* C20: a finished delivery whose record was inserted and whose call of
\* send_license_email failed was answered 200 with the license key, the
\* email and the tier, and the record is in the store as it was inserted,
\* with status ACTIVE.
C20_EmailFailureSwallowed ==
    \A h \in HookProcs :
        (hook[h].pc = "done" /\ hook[h].insert_ok /\ hook[h].sends = 1
         /\ ~hook[h].send_ok)
        => LET d == hook[h].license_data
           IN  /\ hook[h].reply =
                     [message |-> "License generated successfully", license_key |-> d.license_key,
                      email |-> d.email,
                      tier |-> d.tier, code |-> 200,
                      error |-> Msg("")]
               /\ licenses[d.license_key] = d
               /\ licenses[d.license_key].status = ACTIVE

C20_Witness ==
    \E h \in HookProcs :
        /\ hook[h].pc = "done" /\ hook[h].insert_ok
        /\ hook[h].sends = 1 /\ ~hook[h].send_ok
        /\ outbox = <<>>
        /\ hook[h].reply.code = 200
        /\ hook[h].reply.tier = STARTER
        /\ licenses[hook[h].license_data.license_key].status = ACTIVE

UpperHexDigits ==
    {"0", "1", "2", "3", "4", "5", "6", "7", "8", "9", "A", "B", "C", "D", "E", "F"}

\* The key has the form COMPL-XXXX-XXXX-XXXX-XXXX: the prefix, then four
\* groups of four uppercase hexadecimal digits joined by hyphens.
MatchesKeyFormat(k) ==
    /\ Len(k) = Len(Prefix) + 19
    /\ SubSeq(k, 1, Len(Prefix)) = Prefix
    /\ \A i \in 1..19 :
          IF i \in {5, 10, 15} THEN k[Len(Prefix) + i] = "-"
          ELSE k[Len(Prefix) + i] \in UpperHexDigits

\* C21: every key generate_license_key returned to the issuance handler
\* has the form COMPL-XXXX-XXXX-XXXX-XXXX and passes the format check of the
\* validation endpoint (it starts with 'COMPL-' and has 24 characters).
C21_GeneratedKeysValidate ==
    \A h \in HookProcs :
        hook[h].license_data.present
        => /\ MatchesKeyFormat(hook[h].license_data.license_key)
           /\ WellFormed(hook[h].license_data.license_key)

\* C22: with LICENSE_SIGNING_KEY absent a finished validation request was
\* answered 500 with the error "Server configuration error", whatever its
\* body, made no store call and wrote no log entry; with any of
\* STRIPE_SECRET_KEY, STRIPE_WEBHOOK_SECRET and LICENSE_SIGNING_KEY absent a
\* finished delivery to the webhook was answered 500 with an error naming
\* the missing secrets, whatever it carried, and generated no key, inserted
\* no record and sent no email; neither response is a verdict.
C22_ConfigErrorsFatal ==
    /\ \A r \in Procs :
          (pc[r] = "done" /\ (~signing_key.present \/ signing_key.value = <<>>))
          => /\ reply[r] = [email |-> <<>>, tier |-> <<>>, status |-> <<>>,
                            code |-> 500, valid |-> "none",
                            error |-> Msg("Server configuration error")]
             /\ obs[r] = NoObs
             /\ EntriesOf(r) = {}
    /\ \A h \in HookProcs :
          (hook[h].pc = "done" /\ ~HookConfigured)
          => /\ hook[h].reply.code = 500
             /\ hook[h].reply.error.text = "Server configuration error: Missing "
             /\ hook[h].reply.error.arg # <<>>
             /\ hook[h].reply.license_key = <<>>
             /\ NothingIssued(h)
    /\ (~signing_key.present \/ signing_key.value = <<>>)
       => validations = <<>> /\ \A k \in GenKeys : ~licenses[k].present

\* Only STRIPE_SECRET_KEY is missing: a verified, paid delivery is answered
\* 500, and a validation of K1 goes its way.
C22_Witness ==
    \E h \in HookProcs, r \in Procs :
        /\ ~environ.stripe_api_key.present
        /\ environ.webhook_secret.present /\ signing_key.present
        /\ hook[h].pc = "done" /\ OriginVerified(h)
        /\ hook[h].event.type = "checkout.session.completed"
        /\ hook[h].reply.error.arg = <<"STRIPE_SECRET_KEY">>
        /\ NothingIssued(h)
        /\ pc[r] = "done" /\ reply[r].valid = "true"

\* Delivery h was processed successfully: its record was inserted with
\* status ACTIVE, validation_count 0 and the signature of (key, email, tier)
\* under the signing secret, and the response is 200 with the key.
Issued(h) ==
    LET d == hook[h].license_data
    IN  /\ hook[h].pc = "done" /\ hook[h].insert_ok
        /\ hook[h].reply.code = 200 /\ hook[h].reply.license_key = d.license_key
        /\ d.status = ACTIVE /\ d.validation_count = 0
        /\ d.signature =
              SignLicense(d.license_key, d.email, d.tier, signing_key.value).value

\* The record of delivery h is ACTIVE and not yet expired.
StillGood(h) ==
    LET row == licenses[hook[h].license_data.license_key]
    IN  /\ row.present /\ row.status = ACTIVE
        /\ row.expires_at.kind = "iso" /\ now < Instant(row.expires_at)

\* C23: a validation request that arrives after delivery h was processed
\* successfully and presents the license key of its response, while the
\* record is ACTIVE and not expired, is not turned away on arrival but goes
\* on to the lookup; and a finished validation that fetched the record as
\* issuance inserted it, before its expiry, was answered valid: true with
\* the email and tier of the issuance.
C23_IssueThenValidate ==
    /\ [][\A r \in Procs, h \in HookProcs :
             (/\ pc[r] = "idle" /\ pc'[r] # "idle"
              /\ Issued(h) /\ StillGood(h)
              /\ loc'[r].body = KeyField(hook[h].reply.license_key))
             => pc'[r] = "get"]_vars
    /\ [](\A r \in Procs, h \in HookProcs :
             (/\ pc[r] = "done" /\ Issued(h)
              /\ loc[r].license_data = hook[h].license_data
              /\ loc[r].utcnow < Instant(hook[h].license_data.expires_at))
             => /\ reply[r].code = 200 /\ reply[r].valid = "true"
                /\ reply[r].email = hook[h].reply.email
                /\ reply[r].tier = hook[h].reply.tier)

\* C24: every step that changes a license record is the counter update of a
\* validation on its success path, changes the record of that request's key
\* alone and leaves its status as it was; hence a finished validation that
\* was not answered valid: true (format, not found, signature, status,
\* expiry, 4xx or 5xx) never called update_license_validation, and every
\* step it took left every record as it was; and no step of any validation
\* changes the status of any record.
C24_RejectionsChangeNothing ==
    /\ [][\A k \in Keys :
             licenses'[k] # licenses[k]
             => /\ \E r \in Procs : UpdateDone(r) /\ k = loc[r].license_key
                /\ licenses'[k].present
                /\ licenses'[k].status = licenses[k].status]_vars
    /\ [](\A r \in Procs :
             (pc[r] = "done" /\ reply[r].valid # "true")
             => obs[r].upd = 0 /\ ~obs[r].upd_ok)

\* A validation of K1 was rejected as expired and logged; the row is as
\* the request fetched it, never validated.
C24_Witness ==
    \E r \in Procs :
        /\ pc[r] = "done" /\ reply[r].valid = "false"
        /\ loc[r].fail = "expired" /\ obs[r].log = 1
        /\ loc[r].license_key = K1
        /\ licenses[K1] = loc[r].license_data
        /\ licenses[K1].last_validated_at = NullTime

\* The validations of key k whose counter update reached the store.
Updaters(k) == {r \in Procs : obs[r].upd_ok /\ loc[r].license_key = k}

\* Request r was received and is not yet answered.
InFlight(r) == pc[r] \notin {"idle", "done"}

\* No two requests are in flight together.
Sequential == \A r, q \in Procs : (InFlight(r) /\ InFlight(q)) => r = q

\* C25: in every reachable state the stored validation_count of a key is at
\* most the number of validations of that key whose counter update reached
\* the store (the count at issuance being 0), whatever the interleaving; and
\* in a run in which no two requests are ever in flight together it equals
\* that number in every state.
C25_NeverOverCounts ==
    /\ [](\A k \in Keys :
             licenses[k].validation_count <= Cardinality(Updaters(k)))
    /\ ([]Sequential
        => [](\A k \in Keys :
                 licenses[k].validation_count = Cardinality(Updaters(k))))

\* Two validations of K1 have written their counter, the second having read
\* what the first wrote: the stored count is 2.
C25_Witness ==
    \E r, q \in Procs :
        /\ r # q
        /\ pc[r] = "done" /\ pc[q] = "done"
        /\ obs[r].upd_ok /\ obs[q].upd_ok
        /\ loc[r].license_data.validation_count = 0
        /\ loc[q].license_data.validation_count = 1
        /\ licenses[K1].validation_count = 2

\* C26: a delivery for which send_license_email was called had its record
\* inserted successfully before; a delivery whose insert failed is finished,
\* answered 500, and send_license_email was never called for it; and every
\* email that was sent names a key whose record is in the store under the
\* address the email went to.
C26_EmailAfterInsert ==
    /\ \A h \in HookProcs :
          /\ hook[h].sends >= 1 => (hook[h].inserts = 1 /\ hook[h].insert_ok)
          /\ (hook[h].inserts >= 1 /\ ~hook[h].insert_ok)
             => /\ hook[h].pc = "done"
                /\ hook[h].reply.code = 500
                /\ hook[h].sends = 0
    /\ \A i \in DOMAIN outbox :
          /\ licenses[outbox[i].license_key].present
          /\ licenses[outbox[i].license_key].email = outbox[i].to

\* The insert of a verified, paid delivery failed: the answer is 500, no
\* email was sent and the key has no record.
C26_Witness ==
    \E h \in HookProcs :
        /\ hook[h].pc = "done"
        /\ hook[h].inserts = 1 /\ ~hook[h].insert_ok
        /\ hook[h].reply.code = 500
        /\ hook[h].sends = 0 /\ outbox = <<>>
        /\ ~licenses[hook[h].license_data.license_key].present

====
